---- MODULE Spec2Model ----
(***************************************************************************)
(* Markov chain bot: the transition store (table markov_data) and the      *)
(* chain generator, as implemented by src/app/markov.py with its handlers  *)
(* in src/app/telegram_markov_bot.py, and by the single-file bot           *)
(* src/telegram_markov_bot.py (DatabaseManager, MarkovChainGenerator).     *)
(* Both programs keep the same table (chat_id, word1, word2, next_word)    *)
(* with that primary key and both default to the file markov_data.db, so   *)
(* the model lets the operations of both act on one store.                 *)
(***************************************************************************)
EXTENDS Integers, Sequences, FiniteSets, Bags, TLC

VARIABLES
    store,              \* rows of markov_data: <<chat_id, word1, word2, next_word>>
    ingested,           \* ghost: bag of <<chat_id, tokens>> handed to a save that no storage fault hit
    order,              \* MARKOV_ORDER of the running process
    is_fallback_call,   \* MarkovChainGenerator._is_fallback_call
    last,               \* the store operation that completed last: arguments and outcome
    g,                  \* the generation call in progress or just returned
    settings,           \* rows of group_settings, by chat_id
    sessions            \* the save calls of two processes running at the same time

vars == <<store, ingested, order, is_fallback_call, last, g, settings, sessions>>

----------------------------------------------------------------------------
(* Bounds of the model *)

\* longest token list of one message
MaxLen == 4
\* total number of tokens the store is fed
MaxTokens == 4
\* largest max_length a generation is called with
MaxLength == 3

\* content words; get_starting_word_from_message keeps words with len(w) > 2
Words == {"cat", "to"}
WordLen == [w \in Words |-> IF w = "cat" THEN 3 ELSE 2]
Chats == {1, 2}

----------------------------------------------------------------------------
(* Constants of the program *)

START_TOKEN == "<START>"
END_TOKEN == "<END>"
Markers == {START_TOKEN, END_TOKEN}

\* starting_word=None; the code only tests its truth value
NoSeed == ""
\* current_state = None; contexts are tuples of `order` words
None == <<>>

INSUFFICIENT_APP == "Hmph. I don't have enough data to say anything. Don't expect me to talk if you don't talk first, baka!"
EMPTY_APP == "I tried, but I couldn't think of anything to say... It's not like I wanted to talk to you anyway!"
INSUFFICIENT_BOT == "I don't have enough data to generate a message yet!"
NO_START_BOT == "I'm having trouble starting a message right now!"
EMPTY_BOT == "I don't have enough data to generate a coherent message yet!"

----------------------------------------------------------------------------
(* Helpers *)

Range(s) == {s[i] : i \in DOMAIN s}

HasDuplicate(s) == \E i, j \in DOMAIN s : i < j /\ s[i] = s[j]

\* token lists a tokenised message can be: words stripped of punctuation and
\* lower-cased, so never a marker and never empty.  Every list shorter than
\* MaxLen, and the lists of MaxLen equal words, the shortest that repeat a
\* window.
TokenSeqs ==
    UNION {[1..n -> Words] : n \in 0..(MaxLen - 1)}
       \cup {[i \in 1..MaxLen |-> w] : w \in Words}

RECURSIVE SumOver(_, _)
SumOver(f, S) ==
    IF S = {} THEN 0
    ELSE LET x == CHOOSE y \in S : TRUE IN f[x] + SumOver(f, S \ {x})

\* number of tokens in the bag of ingested sequences
TokensIn(bag) ==
    SumOver([e \in DOMAIN bag |-> bag[e] * Len(e[2])], DOMAIN bag)

----------------------------------------------------------------------------
(* Ingestion: the windows of a message *)

\* word_sequence = ["<START>"] + words + ["<END>"]
word_sequence(words) == <<START_TOKEN>> \o words \o <<END_TOKEN>>

\* word_pairs = [(s[i], s[i+1], s[i+2]) for i in range(len(s) - 2)]
word_pairs_of(words) ==
    LET s == word_sequence(words)
    IN [i \in 1..(Len(s) - 2) |-> <<s[i], s[i + 1], s[i + 2]>>]

\* the rows a batch addresses, in batch order
RowsOf(chat_id, word_pairs) ==
    [i \in DOMAIN word_pairs |->
        <<chat_id, word_pairs[i][1], word_pairs[i][2], word_pairs[i][3]>>]

----------------------------------------------------------------------------
(* Transition store, src/app/markov.py *)

\* A Session of SessionLocal (autocommit=False, autoflush=False): the rows
\* committed to the table and the instances added but not yet flushed.
Session(db) == [committed |-> db, pending |-> <<>>]

\* db.query(MarkovData).filter_by(...).first(): without autoflush the query
\* reads the table only, never the pending instances
query_first(session, row) == row \in session.committed

\* db.add(instance)
add(session, row) == [session EXCEPT !.pending = Append(@, row)]

\* faulty variant: the rollback leaves the pending instances in the table
rollback_keeps_pending(session) ==
    session.committed \cup Range(session.pending)

\* db.rollback(): the pending instances are dropped, the table is as it was
rollback(session) == session.committed

\* db.commit(): the flush INSERTs every pending instance; two instances with
\* the same primary key (markov_data_pk) make the INSERT fail
commit(session) ==
    IF HasDuplicate(session.pending)
           \/ \E i \in DOMAIN session.pending : session.pending[i] \in session.committed
    THEN [ok |-> FALSE, db |-> session.committed]
    ELSE [ok |-> TRUE, db |-> session.committed \cup Range(session.pending)]

\* the loop of the non-PostgreSQL branch over the first n rows of the batch
RECURSIVE add_missing(_, _, _)
add_missing(session, rows, n) ==
    IF n = 0 THEN session
    ELSE LET before == add_missing(session, rows, n - 1)
         IN IF query_first(before, rows[n]) THEN before ELSE add(before, rows[n])

\* pg_insert(...).values(rows).on_conflict_do_update(...): one statement for
\* the whole batch; PostgreSQL rejects a statement that would touch the same
\* key twice ("ON CONFLICT DO UPDATE command cannot affect row a second time")
pg_upsert(session, rows) ==
    IF HasDuplicate(rows)
    THEN [ok |-> FALSE, db |-> session.committed]
    ELSE [ok |-> TRUE, db |-> session.committed \cup Range(rows)]

\* save_to_database(db, chat_id, word_pairs).  dialect is db.bind.dialect.name;
\* fault = 0: the storage raises nothing of its own; fault = k > 0: the k-th
\* storage call of the batch raises (k = Len + 1: the commit).  Every
\* exception is caught (except Exception) and answered by db.rollback().
\* The result is the table after the call and whether the call raised.
save_to_database(db, chat_id, word_pairs, dialect, fault) ==
    IF word_pairs = <<>> THEN [db |-> db, raised |-> FALSE]
    ELSE LET rows == RowsOf(chat_id, word_pairs)
             session == Session(db)
         IN IF dialect = "postgresql"
            THEN LET done == pg_upsert(session, rows)
                 IN IF fault # 0 \/ ~done.ok
                    THEN [db |-> rollback(session), raised |-> FALSE]
                    ELSE [db |-> done.db, raised |-> FALSE]
            ELSE IF fault # 0
                 THEN [db |-> rollback(add_missing(session, rows, fault - 1)),
                       raised |-> FALSE]
                 ELSE LET filled == add_missing(session, rows, Len(rows))
                          done == commit(filled)
                      IN IF done.ok
                         THEN [db |-> done.db, raised |-> FALSE]
                         ELSE [db |-> rollback(filled), raised |-> FALSE]

\* faulty variant: only the word1 column is compared
word_exists_in_db_word1_only(db, chat_id, word, fault) ==
    IF fault THEN FALSE
    ELSE Cardinality({r \in db : r[1] = chat_id /\ r[2] = word}) > 0

\* word_exists_in_db(db, chat_id, word); a storage error is logged, result False
word_exists_in_db(db, chat_id, word, fault) ==
    IF fault THEN FALSE
    ELSE Cardinality({r \in db : r[1] = chat_id /\ (r[2] = word \/ r[3] = word)}) > 0

\* get_random_word_from_db(db, chat_id), lines 59-70: the values it can
\* return.  The query draws among the word1 values of the chat that are no
\* marker; None (NoSeed) without such a row, and on an error.
get_random_word_from_db(db, chat_id, fault) ==
    IF fault THEN {NoSeed}
    ELSE LET result == {r[2] : r \in {q \in db : q[1] = chat_id
                                                  /\ q[2] \notin Markers}}
         IN IF result = {} THEN {NoSeed} ELSE result

----------------------------------------------------------------------------
(* Transition store, src/telegram_markov_bot.py (DatabaseManager) *)

\* the connection's transaction after the first n rows of the batch:
\* INSERT OR IGNORE, then UPDATE updated_at
RECURSIVE insert_or_ignore(_, _, _)
insert_or_ignore(working, rows, n) ==
    IF n = 0 THEN working
    ELSE insert_or_ignore(working, rows, n - 1) \cup {rows[n]}

\* "with self._get_connection() as conn": the block's transaction is
\* committed when the block ends normally and rolled back when it raises
conn_exit(db, working, block_raised) == IF block_raised THEN db ELSE working

\* save_word_pairs(chat_id, word_pairs); fault as for save_to_database.  The
\* exception leaves the with block and is caught and logged.
save_word_pairs(db, chat_id, word_pairs, fault) ==
    LET rows == RowsOf(chat_id, word_pairs)
    IN IF fault # 0
       THEN [db |-> conn_exit(db, insert_or_ignore(db, rows, fault - 1), TRUE),
             raised |-> FALSE]
       ELSE [db |-> conn_exit(db, insert_or_ignore(db, rows, Len(rows)), FALSE),
             raised |-> FALSE]

\* word_exists(chat_id, word)
word_exists(db, chat_id, word, fault) ==
    IF fault THEN FALSE
    ELSE Cardinality({r \in db : r[1] = chat_id /\ (r[2] = word \/ r[3] = word)}) > 0

\* get_random_db_word(chat_id), lines 124-139: SELECT DISTINCT word1 of the
\* chat that is no marker, one at random; None (NoSeed) without one, and on an
\* error
get_random_db_word(db, chat_id, fault) ==
    IF fault THEN {NoSeed}
    ELSE LET result == {r[2] : r \in {q \in db : q[1] = chat_id
                                                  /\ q[2] \notin Markers}}
         IN IF result = {} THEN {NoSeed} ELSE result

\* faulty variant: the WHERE chat_id clause is missing
fetch_markov_data_any_chat(db, chat_id, all_chats, fault) ==
    IF fault THEN {} ELSE db

\* fetch_markov_data(chat_id): every row, or the rows of one chat; [] on error.
\* all_chats stands for chat_id is None.
fetch_markov_data(db, chat_id, all_chats, fault) ==
    IF fault THEN {}
    ELSE IF all_chats THEN db
    ELSE {r \in db : r[1] = chat_id}

----------------------------------------------------------------------------
(* Chain generator, src/app/markov.py *)

\* The value a generation call hands back: a fixed message (kind "fixed"),
\* generated words joined by blanks (kind "text"), or an exception that
\* leaves the call (kind "raise").
Fixed(text) == [kind |-> "fixed", text |-> text, words |-> <<>>]
Text(ws) == [kind |-> "text", text |-> "", words |-> ws]
Raise == [kind |-> "raise", text |-> "", words |-> <<>>]
NoResult == [kind |-> "none", text |-> "", words |-> <<>>]

\* the model folded from a set of rows: a context is a tuple of ord words.
\* Order 1 counts, for word1 -> word2, the rows that hold the pair; order 2
\* counts, for (word1, word2) -> next_word, the rows that hold the triple.
\* starting_states is the set of the values the code's list holds.
fold_model(data, ord) ==
    IF ord = 1
    THEN [transitions |->
              [k \in {<<r[2]>> : r \in data} |->
                  [w \in {r[3] : r \in {q \in data : q[2] = k[1]}} |->
                      Cardinality({r \in data : r[2] = k[1] /\ r[3] = w})]],
          starting_states |-> {<<r[3]>> : r \in {q \in data : q[2] = START_TOKEN}}]
    ELSE [transitions |->
              [k \in {<<r[2], r[3]>> : r \in data} |->
                  [w \in {r[4] : r \in {q \in data : q[2] = k[1] /\ q[3] = k[2]}} |->
                      Cardinality({r \in data :
                                      r[2] = k[1] /\ r[3] = k[2] /\ r[4] = w})]],
          starting_states |->
              {<<r[2], r[3]>> : r \in {q \in data : q[2] = START_TOKEN}}]
\* faulty variant: the WHERE chat_id clause is missing
build_markov_model_any_chat(db, chat_id, ord) ==
    IF db = {}
    THEN [transitions |-> <<>>, starting_states |-> {}]
    ELSE fold_model(db, ord)

\* build_markov_model(db, chat_id): (None, None) when the chat has no row
build_markov_model(db, chat_id, ord) ==
    LET data == {r \in db : r[1] = chat_id}
    IN IF data = {}
       THEN [transitions |-> <<>>, starting_states |-> {}]
       ELSE fold_model(data, ord)

\* random.choices(words, weights): the words of positive weight
random_choices(weights) == {w \in DOMAIN weights : weights[w] > 0}

\* faulty variant: the end marker keeps its count
boosted_unscaled(count, n, L) == count

\* Binary floating point as Python's float has it: a value is held as its
\* integer part and the bits after the point, and every operation is rounded
\* to Precision significant bits, to nearest and on a tie to even.
Precision == 53

\* the number of bits of k
BitLen(k) == CHOOSE b \in 0..30 : k < 2 ^ b /\ (b > 0 => 2 ^ (b - 1) <= k)

\* bits are produced and multiplied eight at a time
ChunkBase == 2 ^ 8

\* v, below ChunkBase, as eight bits
chunk_bits(v) == [i \in 1..8 |-> (v \div 2 ^ (8 - i)) % 2]

\* the number the c-th chunk of bits spells
chunk_value(bits, c) ==
    LET at(i) == bits[8 * (c - 1) + i]
    IN 128 * at(1) + 64 * at(2) + 32 * at(3) + 16 * at(4)
          + 8 * at(5) + 4 * at(6) + 2 * at(7) + at(8)

\* bits filled with zeros to whole chunks
chunk_padded(bits) ==
    bits \o [i \in 1..((8 - (Len(bits) % 8)) % 8) |-> 0]

\* the first k chunks of bits after the point of rem / d, appended to bits,
\* and what is left of the division
RECURSIVE float_expand(_, _, _, _)
float_expand(rem, d, k, bits) ==
    IF k = 0 THEN [frac |-> bits, rem |-> rem]
    ELSE float_expand((ChunkBase * rem) % d, d, k - 1,
                      bits \o chunk_bits((ChunkBase * rem) \div d))

\* a / d as far as rounding needs it; sticky: the division was not finished
float_quotient(a, d) ==
    LET e == float_expand(a % d, d,
                          (Precision + BitLen(d) + 2) \div 8 + 1, <<>>)
    IN [int |-> a \div d, frac |-> e.frac, sticky |-> e.rem # 0]

\* the zero bits before the first one bit
LeadingZeros(bits) ==
    IF \A i \in DOMAIN bits : bits[i] = 0 THEN Len(bits)
    ELSE (CHOOSE i \in DOMAIN bits :
             bits[i] = 1 /\ \A j \in 1..(i - 1) : bits[j] = 0) - 1

\* one unit in the last place added to int.bits
float_next(int_part, bits) ==
    IF \A i \in DOMAIN bits : bits[i] = 1
    THEN [int |-> int_part + 1, frac |-> [i \in DOMAIN bits |-> 0]]
    ELSE LET j == CHOOSE i \in DOMAIN bits :
                     bits[i] = 0 /\ \A k \in (i + 1)..Len(bits) : bits[k] = 1
         IN [int |-> int_part,
             frac |-> [i \in DOMAIN bits |->
                          IF i < j THEN bits[i] ELSE IF i = j THEN 1 ELSE 0]]

\* x rounded to Precision significant bits
float_round(x) ==
    LET keep == IF x.int > 0 THEN Precision - BitLen(x.int)
                ELSE LeadingZeros(x.frac) + Precision
    IN IF Len(x.frac) <= keep
       THEN [int |-> x.int, frac |-> x.frac, sticky |-> FALSE]
       ELSE LET kept == SubSeq(x.frac, 1, keep)
                rest == x.sticky \/ \E i \in (keep + 2)..Len(x.frac) : x.frac[i] = 1
                up == x.frac[keep + 1] = 1 /\ (rest \/ x.frac[keep] = 1)
                y == IF up THEN float_next(x.int, kept)
                     ELSE [int |-> x.int, frac |-> kept]
            IN [int |-> y.int, frac |-> y.frac, sticky |-> FALSE]

\* 4 * x and 1 + x, before rounding (4 * x needs none)
float_times_four(x) ==
    [int |-> 4 * x.int + 2 * x.frac[1] + x.frac[2],
     frac |-> SubSeq(x.frac, 3, Len(x.frac)), sticky |-> x.sticky]

float_one_plus(x) == [x EXCEPT !.int = @ + 1]

\* the bits of count * 0.bits from chunk c down, with the carry into the
\* integer part
RECURSIVE float_scale(_, _, _, _, _)
float_scale(count, bits, c, carry, out) ==
    IF c = 0 THEN [carry |-> carry, frac |-> out]
    ELSE LET v == count * chunk_value(bits, c) + carry
         IN float_scale(count, bits, c - 1, v \div ChunkBase,
                        chunk_bits(v % ChunkBase) \o out)

\* count * x, before rounding
float_times(count, x) ==
    LET bits == chunk_padded(x.frac)
        low == float_scale(count, bits, Len(bits) \div 8, 0, <<>>)
    IN [int |-> count * x.int + low.carry, frac |-> low.frac,
        sticky |-> x.sticky]

\* lines 137-138: (len(message) - soft_length_limit) / (max_length -
\* soft_length_limit) with soft_length_limit = max_length * 0.5, n =
\* len(message) and L = max_length; both differences are exact
length_penalty(n, L) == float_round(float_quotient(2 * n - L, L))

\* line 139: 1 + 4 * length_penalty
boost_factor(n, L) ==
    float_round(float_one_plus(float_times_four(length_penalty(n, L))))

\* line 140: int(count * boost_factor), the product cut off at the point.
\* It is count * (8 n - 3 L) / L rounded down, or one less where the rounded
\* product falls just short of a whole number (count 3, n 2, L 3: 6, not 7).
int_of_product(count, n, L) ==
    float_round(float_times(count, boost_factor(n, L))).int

\* the max_length of a call of generate_message that passes none
DefaultMaxLength == 30

\* the draws of the calls with a max_length up to the default, for which
\* the value is worked out once and kept (@@ makes the function explicit)
BoostedDraws ==
    {t \in (1..3) \X (1..(3 * DefaultMaxLength)) \X (1..DefaultMaxLength) :
        2 * t[2] > t[3] /\ 2 * t[2] <= 3 * t[3] + 1}
boosted_of ==
    [t \in BoostedDraws |-> int_of_product(t[1], t[2], t[3])] @@ <<>>

boosted(count, n, L) ==
    IF <<count, n, L>> \in DOMAIN boosted_of THEN boosted_of[<<count, n, L>>]
    ELSE int_of_product(count, n, L)

\* faulty variant: a seed is the first state whether it is stored or not
initial_states_trusting(model, ord, starting_word) ==
    IF starting_word # NoSeed
    THEN {[current_state |-> IF ord = 1 THEN <<starting_word>>
                                         ELSE <<START_TOKEN, starting_word>>,
           message |-> <<starting_word>>]}
    ELSE {[current_state |-> s, message |-> <<s[ord]>>] :
             s \in model.starting_states}

\* the first part of generate_message, lines 103-124: the initial states and
\* messages random.choice can give
initial_states(model, ord, starting_word) ==
    LET transitions == model.transitions
        starting_states == model.starting_states
    IN IF ord = 1
       THEN IF starting_word # NoSeed /\ <<starting_word>> \in DOMAIN transitions
            THEN {[current_state |-> <<starting_word>>, message |-> <<starting_word>>]}
            ELSE {[current_state |-> s, message |-> <<s[1]>>] : s \in starting_states}
       ELSE LET valid_states ==
                    IF starting_word # NoSeed
                    THEN {s \in starting_states : s[2] = starting_word}
                    ELSE {}
            IN IF valid_states # {}
               THEN {[current_state |-> s, message |-> <<s[2]>>] : s \in valid_states}
               ELSE {[current_state |-> s, message |-> <<s[2]>>] : s \in starting_states}
\* faulty variant: the end marker is boosted but never forced
next_words_no_force(transitions, current_state, n, max_length) ==
    LET next_words_map == transitions[current_state]
    IN IF 2 * n > max_length /\ END_TOKEN \in DOMAIN next_words_map
       THEN random_choices([next_words_map EXCEPT
                               ![END_TOKEN] = boosted(@, n, max_length)])
       ELSE random_choices(next_words_map)

\* lines 130-148: the words the step can draw in current_state
next_words(transitions, current_state, n, max_length) ==
    LET next_words_map == transitions[current_state]
    IN IF 2 * n > max_length /\ END_TOKEN \in DOMAIN next_words_map
       THEN LET new_counts ==
                    [next_words_map EXCEPT
                        ![END_TOKEN] = boosted(@, n, max_length)]
            IN IF n > max_length
               THEN {END_TOKEN}
               ELSE random_choices(new_counts)
       ELSE random_choices(next_words_map)

\* lines 131-148: the weights random.choices is called with for a message of
\* n words, new_counts above the soft limit when the end marker is a
\* successor, else counts
sampling_weights(next_words_map, n, max_length) ==
    IF 2 * n > max_length /\ END_TOKEN \in DOMAIN next_words_map
    THEN [next_words_map EXCEPT ![END_TOKEN] = boosted(@, n, max_length)]
    ELSE next_words_map

\* faulty variant: the state is not moved on
advance_stays(ord, current_state, next_word) == current_state

\* lines 155-158
advance(ord, current_state, next_word) ==
    IF ord = 1 THEN <<next_word>> ELSE <<current_state[2], next_word>>
\* faulty variant: the markers are not filtered out
KeepMarkers(message) == message

\* line 163: the words of the message that are no marker
SelectNotMarker(message) == SelectSeq(message, LAMBDA w : w \notin Markers)

\* lines 160-163: the value generate_message returns
finish_message(message) ==
    IF message = <<>> THEN Fixed(EMPTY_APP) ELSE Text(SelectNotMarker(message))
\* faulty variant: <= for < in the loop condition
loop_continues_inclusive(current_state, message, max_length) ==
    current_state # None /\ 2 * Len(message) <= 3 * max_length

\* the loop condition of line 126: len(message) < max_length * 1.5
loop_continues(current_state, message, max_length) ==
    current_state # None /\ 2 * Len(message) < 3 * max_length

----------------------------------------------------------------------------
(* Chain generator, src/telegram_markov_bot.py (MarkovChainGenerator) *)

\* _build_model(chat_id): the fold is that of build_markov_model; starting
\* states whose word is a marker are filtered out.  (None, None) without data.
build_model(db, chat_id, all_chats, ord, fault) ==
    LET data == fetch_markov_data(db, chat_id, all_chats, fault)
    IN IF data = {}
       THEN [transitions |-> <<>>, starting_states |-> {}]
       ELSE LET raw == fold_model(data, ord)
            IN [transitions |-> raw.transitions,
                starting_states |->
                    {s \in raw.starting_states : s[ord] \notin Markers}]

\* _get_initial_state_and_message(transitions, starting_states, starting_word)
get_initial_state_and_message(model, ord, starting_word) ==
    LET transitions == model.transitions
        starting_states == model.starting_states
        valid_random_starts == {s \in starting_states : s \in DOMAIN transitions}
        nothing == {[current_state |-> None, message |-> <<>>]}
    IN IF starting_states = {} THEN nothing
       ELSE IF ord = 1
       THEN IF starting_word # NoSeed /\ <<starting_word>> \in DOMAIN transitions
                  /\ starting_word \notin Markers
            THEN {[current_state |-> <<starting_word>>, message |-> <<starting_word>>]}
            ELSE IF valid_random_starts # {}
            THEN {[current_state |-> s, message |-> <<s[1]>>] : s \in valid_random_starts}
            ELSE LET fallback_keys ==
                         {k \in DOMAIN transitions : k[1] \notin Markers}
                 IN IF fallback_keys # {}
                    THEN {[current_state |-> k, message |-> <<k[1]>>] : k \in fallback_keys}
                    ELSE nothing
       ELSE LET possible_initial_states ==
                    {s \in starting_states :
                        s[2] = starting_word /\ s \in DOMAIN transitions}
                alternative_states ==
                    {k \in DOMAIN transitions :
                        k[1] = starting_word /\ k[1] # START_TOKEN}
            IN IF starting_word # NoSeed /\ possible_initial_states # {}
               THEN {[current_state |-> s, message |-> <<s[2]>>] :
                        s \in possible_initial_states}
               ELSE IF starting_word # NoSeed /\ alternative_states # {}
               THEN {[current_state |-> k, message |-> <<k[1], k[2]>>] :
                        k \in alternative_states}
               ELSE IF valid_random_starts # {}
               THEN {[current_state |-> s, message |-> <<s[2]>>] :
                        s \in valid_random_starts}
               ELSE nothing

\* _generate_next_word(transitions, current_state, current_message_len, max_len):
\* the words it can return
generate_next_word(transitions, current_state, current_message_len, max_len) ==
    IF current_state \notin DOMAIN transitions
           \/ DOMAIN transitions[current_state] = {}
    THEN {END_TOKEN}
    ELSE LET next_word_options == transitions[current_state]
             words == DOMAIN next_word_options
             valid_choices == words \ {START_TOKEN}
         IN IF current_message_len >= max_len /\ END_TOKEN \in words
            THEN {END_TOKEN}
            ELSE IF valid_choices = {} THEN {END_TOKEN}
            ELSE random_choices([w \in valid_choices |-> next_word_options[w]])

\* range(max_length - len(message_parts))
loop_range(max_length, message_parts) ==
    IF max_length - Len(message_parts) > 0
    THEN max_length - Len(message_parts) ELSE 0

----------------------------------------------------------------------------
(* The generation call as a process: one step per loop iteration *)

Idle ==
    [pc |-> "idle", program |-> "", caller |-> "", chat_id |-> 0,
     max_length |-> 0, starting_word |-> NoSeed, use_all_chats |-> FALSE,
     read_failed |-> FALSE, retry |-> FALSE, current_state |-> None, message |-> <<>>,
     remaining |-> 0, result |-> NoResult]

NoLast ==
    [op |-> "", chat_id |-> 0, words |-> <<>>, word |-> "", fault |-> 0,
     saved |-> FALSE, raised |-> FALSE, ret |-> FALSE, before |-> {},
     picked |-> "", args |-> <<>>, admin |-> FALSE,
     document |-> "", too_big |-> FALSE, lines |-> <<>>]

Call(program, caller, chat_id, max_length, starting_word, use_all_chats, retry) ==
    [Idle EXCEPT !.program = program, !.caller = caller, !.chat_id = chat_id,
                 !.max_length = max_length, !.starting_word = starting_word,
                 !.use_all_chats = use_all_chats, !.retry = retry]

Done(call, result) == [call EXCEPT !.pc = "done", !.result = result]

\* generate_message(db, chat_id, max_length, starting_word), lines 97-124:
\* the states the call can be in when it reaches the loop, or has returned.
\* build_markov_model has no handler for a failed read: the error leaves
\* generate_message.
generate_message_enter(db, ord, request, fault) ==
    LET call == [request EXCEPT !.read_failed = fault]
    IN
    IF fault THEN {Done(call, Raise)}
    ELSE LET model == build_markov_model(db, call.chat_id, ord)
         IN IF model.starting_states = {}
            THEN {Done(call, Fixed(INSUFFICIENT_APP))}
            ELSE {[call EXCEPT !.pc = "walk",
                               !.current_state = i.current_state,
                               !.message = i.message] :
                     i \in initial_states(model, ord, call.starting_word)}
\* faulty variant: the drawn word becomes the state but message.append is missing
generate_message_loop_no_append(db, ord, call) ==
    LET transitions == build_markov_model(db, call.chat_id, ord).transitions
        current_state == call.current_state
        message == call.message
    IN IF ~loop_continues(current_state, message, call.max_length)
           \/ current_state \notin DOMAIN transitions
       THEN {Done(call, finish_message(message))}
       ELSE {IF next_word = END_TOKEN
             THEN Done(call, finish_message(message))
             ELSE [call EXCEPT
                      !.current_state = advance(ord, current_state, next_word)] :
                next_word \in next_words(transitions, current_state,
                                         Len(message), call.max_length)}

\* one evaluation of the while loop of lines 126-158, and the return of
\* lines 160-163 when the loop ends
generate_message_loop(db, ord, call) ==
    LET transitions == build_markov_model(db, call.chat_id, ord).transitions
        current_state == call.current_state
        message == call.message
    IN IF ~loop_continues(current_state, message, call.max_length)
           \/ current_state \notin DOMAIN transitions
       THEN {Done(call, finish_message(message))}
       ELSE LET drawn == next_words(transitions, current_state,
                                    Len(message), call.max_length)
            IN IF drawn = {} THEN {Done(call, Raise)}
               ELSE {IF next_word = END_TOKEN
                     THEN Done(call, finish_message(message))
                     ELSE [call EXCEPT
                              !.message = Append(message, next_word),
                              !.current_state =
                                  advance(ord, current_state, next_word)] :
                        next_word \in drawn}

\* generate(chat_id, max_length, use_all_chats, starting_word), lines 265-290,
\* for the call made with _is_fallback_call set (the retry without a word)
generate_retry_enter(db, ord, call, fault) ==
    LET inner == [call EXCEPT !.starting_word = NoSeed, !.retry = TRUE,
                              !.read_failed = fault,
                              !.current_state = None, !.message = <<>>,
                              !.remaining = 0]
        model == build_model(db, inner.chat_id, inner.use_all_chats, ord, fault)
    IN IF DOMAIN model.transitions = {} \/ model.starting_states = {}
       THEN {Done(inner, Fixed(INSUFFICIENT_BOT))}
       ELSE {IF i.current_state = None \/ i.message = <<>>
             THEN Done(inner, Fixed(NO_START_BOT))
             ELSE [inner EXCEPT !.pc = "walk",
                                !.current_state = i.current_state,
                                !.message = i.message,
                                !.remaining = loop_range(inner.max_length, i.message)] :
                i \in get_initial_state_and_message(model, ord, NoSeed)}

\* generate, lines 265-290, for a call that may still retry: fault is the
\* failure of its own read, fault2 that of the retry's read
generate_enter(db, ord, flag, request, fault, fault2) ==
    LET call == [request EXCEPT !.read_failed = fault]
        model == build_model(db, call.chat_id, call.use_all_chats, ord, fault)
    IN IF DOMAIN model.transitions = {} \/ model.starting_states = {}
       THEN {Done(call, Fixed(INSUFFICIENT_BOT))}
       ELSE UNION
            {IF i.current_state = None \/ i.message = <<>>
             THEN IF call.starting_word # NoSeed /\ ~flag
                  THEN generate_retry_enter(db, ord, call, fault2)
                  ELSE {Done(call, Fixed(NO_START_BOT))}
             ELSE {[call EXCEPT !.pc = "walk",
                                !.current_state = i.current_state,
                                !.message = i.message,
                                !.remaining = loop_range(call.max_length, i.message)]} :
                i \in get_initial_state_and_message(model, ord, call.starting_word)}

\* lines 308-322: the words left after the markers are filtered out, the
\* retry when none is left, the fixed message when the retry is spent
generate_finish(db, ord, flag, call, fault2) ==
    LET final_message_words == SelectNotMarker(call.message)
    IN IF final_message_words = <<>>
       THEN IF call.starting_word # NoSeed /\ ~flag
            THEN generate_retry_enter(db, ord, call, fault2)
            ELSE {Done(call, Fixed(EMPTY_BOT))}
       ELSE {Done(call, Text(final_message_words))}

\* one iteration of the for loop of lines 292-306, or its end
generate_loop(db, ord, flag, call, fault2) ==
    LET transitions ==
            build_model(db, call.chat_id, call.use_all_chats, ord, FALSE).transitions
    IN IF call.remaining = 0 THEN generate_finish(db, ord, flag, call, fault2)
       ELSE UNION
            {IF next_word = END_TOKEN
             THEN generate_finish(db, ord, flag, call, fault2)
             ELSE {[call EXCEPT
                      !.message = Append(call.message, next_word),
                      !.current_state = advance(ord, call.current_state, next_word),
                      !.remaining = call.remaining - 1]} :
                next_word \in generate_next_word(transitions, call.current_state,
                                                 Len(call.message), call.max_length)}

\* _is_fallback_call is set for the time of the retry and reset in finally
fallback_flag(call) == call.pc = "walk" /\ call.retry

----------------------------------------------------------------------------
(* Handlers' helpers *)

\* the max_length of a call of MarkovChainGenerator.generate that passes none,
\* with MAX_GENERATED_MESSAGE_LENGTH left unset in the environment
MAX_GENERATED_MESSAGE_LENGTH == 20

\* get_starting_word_from_message(db, words, chat_id, force_use_word): the
\* outcomes of the call.  fault: the read of crud.get_word_from_user_chance
\* (line 43, outside any try) fails and the call raises.  Else, unless forced,
\* it may return None by chance; else the shuffled words longer than two
\* characters are tried in turn.  failing: the words whose lookup hits a
\* storage error, which counts as not found.
get_starting_word_from_message(db, words, chat_id, force_use_word, fault, failing) ==
    LET filtered_words == {w \in Range(words) : WordLen[w] > 2}
        found == {w \in filtered_words :
                     word_exists_in_db(db, chat_id, w, w \in failing)}
    IN IF fault
       THEN {[raised |-> TRUE, word |-> NoSeed]}
       ELSE {[raised |-> FALSE, word |-> w] :
                w \in (IF force_use_word THEN {} ELSE {NoSeed})
                         \cup (IF found = {} THEN {NoSeed} ELSE found)}

\* determine_starting_word(processed_text_words, chat_id, db_manager, force);
\* failing as for get_starting_word_from_message
determine_starting_word(db, processed_text_words, chat_id, force_attempt_user_word, failing) ==
    LET eligible_words == {w \in Range(processed_text_words) : WordLen[w] > 2}
        found == {w \in eligible_words :
                     word_exists(db, chat_id, w, w \in failing)}
    IN (IF force_attempt_user_word THEN {} ELSE {NoSeed})
           \cup (IF found = {} THEN {NoSeed} ELSE found)

SeedWords == {NoSeed} \cup Words \cup Markers

QueryWords == Words \cup Markers

\* the bag holding one sequence of one chat
OneSequence(chat_id, words) == SetToBag({<<chat_id, words>>})

AtRest == last = NoLast /\ g = Idle

----------------------------------------------------------------------------
(* Settings of a chat, src/app/crud.py and set_command *)

\* a column of group_settings: NULL, or a value.  A chance is held in tenths.
Null == [is_set |-> FALSE, value |-> 0]
Value(v) == [is_set |-> TRUE, value |-> v]

\* no row of group_settings for the chat
NoRow ==
    [exists |-> FALSE, markov_order |-> Null, random_reply_chance |-> Null,
     word_from_user_chance |-> Null]

NoSettings == [c \in Chats |-> NoRow]

\* get_group_settings(db, chat_id): the row, or None (exists is FALSE)
get_group_settings(table, chat_id) == table[chat_id]

\* update_group_settings(db, chat_id, {key: value}): the row is created when
\* the chat has none, the column is set and the session committed
update_group_settings(table, chat_id, key, value) ==
    LET group_settings == [get_group_settings(table, chat_id) EXCEPT !.exists = TRUE]
    IN [table EXCEPT ![chat_id] = [group_settings EXCEPT ![key] = value]]

\* update_group_settings(db, chat_id, {}), as settings_command calls it
update_group_settings_empty(table, chat_id) ==
    [table EXCEPT ![chat_id].exists = TRUE]

\* get_markov_order(db, chat_id): the chat's order, or config.MARKOV_ORDER
get_markov_order(table, chat_id, default) ==
    LET row == get_group_settings(table, chat_id)
    IN IF row.exists /\ row.markov_order.is_set
       THEN row.markov_order.value ELSE default

\* the arguments a /set command is sent with
ArgNames ==
    {"MARKOV_ORDER", "markov_order", "RANDOM_REPLY_CHANCE",
     "WORD_FROM_USER_CHANCE", "ORDER"}
ArgValues == {"1", "2", "3", "0.5", "1.5", "abc", "nan"}
SetArgs ==
    {<<>>, <<"MARKOV_ORDER">>, <<"MARKOV_ORDER", "1", "2">>}
        \cup {<<n, v>> : n \in ArgNames, v \in ArgValues}

\* context.args[0].upper()
upper(name) == IF name = "markov_order" THEN "MARKOV_ORDER" ELSE name

\* int(value): the integer, or ValueError
int(value) ==
    IF value = "1" THEN [ok |-> TRUE, value |-> 1]
    ELSE IF value = "2" THEN [ok |-> TRUE, value |-> 2]
    ELSE IF value = "3" THEN [ok |-> TRUE, value |-> 3]
    ELSE [ok |-> FALSE, value |-> 0]

\* float(value), in tenths: the number, nan (every comparison with it is
\* false), or ValueError
float(value) ==
    IF value = "1" THEN [ok |-> TRUE, nan |-> FALSE, value |-> 10]
    ELSE IF value = "2" THEN [ok |-> TRUE, nan |-> FALSE, value |-> 20]
    ELSE IF value = "3" THEN [ok |-> TRUE, nan |-> FALSE, value |-> 30]
    ELSE IF value = "0.5" THEN [ok |-> TRUE, nan |-> FALSE, value |-> 5]
    ELSE IF value = "1.5" THEN [ok |-> TRUE, nan |-> FALSE, value |-> 15]
    ELSE IF value = "nan" THEN [ok |-> TRUE, nan |-> TRUE, value |-> 0]
    ELSE [ok |-> FALSE, nan |-> FALSE, value |-> 0]

\* faulty variant: the upper end of the range is not tested
in_unit_interval_no_top(number) == ~number.nan /\ 0 <= number.value

\* 0 <= value <= 1
in_unit_interval(number) ==
    ~number.nan /\ 0 <= number.value /\ number.value <= 10

\* the body of set_command after the admin and usage checks, lines 145-182:
\* the table it leaves.  fault: the commit of update_group_settings raises.
set_setting(table, chat_id, args, fault) ==
    LET setting_name == upper(args[1])
        value == args[2]
    IN IF setting_name = "MARKOV_ORDER"
       THEN IF int(value).ok /\ int(value).value \in {1, 2} /\ ~fault
            THEN update_group_settings(table, chat_id, "markov_order",
                                       Value(int(value).value))
            ELSE table
       ELSE IF setting_name = "RANDOM_REPLY_CHANCE"
       THEN IF float(value).ok /\ in_unit_interval(float(value)) /\ ~fault
            THEN update_group_settings(table, chat_id, "random_reply_chance",
                                       Value(float(value).value))
            ELSE table
       ELSE IF setting_name = "WORD_FROM_USER_CHANCE"
       THEN IF float(value).ok /\ in_unit_interval(float(value)) /\ ~fault
            THEN update_group_settings(table, chat_id, "word_from_user_chance",
                                       Value(float(value).value))
            ELSE table
       ELSE table

----------------------------------------------------------------------------
(* Two save calls at the same time, each with its own session or connection *)

\* longest token list of a message saved by one of two calls running together
MaxBatch == 3

Sessions == {1, 2}

\* the database a call writes to: SQLite through the SQLAlchemy session,
\* PostgreSQL through it, SQLite through DatabaseManager
SaveKinds == {"app-sqlite", "app-postgresql", "bot"}

\* a call that has not begun: rows is the batch, n the number of windows the
\* loop has handled, pending the rows written and not yet committed
NoSession ==
    [pc |-> "idle", kind |-> "", chat_id |-> 0, rows |-> <<>>, n |-> 0,
     pending |-> <<>>, failed |-> FALSE]

NoSessions == [s \in Sessions |-> NoSession]

\* SQLite has one writer: a connection holds the write lock from its first
\* INSERT until it commits
holds_write_lock(session) ==
    /\ session.kind = "bot"
    /\ \/ session.pc = "loop" /\ session.n > 0
       \/ session.pc = "commit"

\* PostgreSQL keeps the rows a statement wrote locked until the commit
holds_row_lock(session, rows) ==
    /\ session.kind = "app-postgresql" /\ session.pc = "commit"
    /\ Range(session.pending) \cap Range(rows) # {}

\* the two calls write to one database
same_database(kind, other) ==
    other.pc = "idle" \/ (kind = "app-postgresql") = (other.kind = "app-postgresql")

\* one storage call of save_to_database, lines 29-43, on SQLite: the query of
\* the next window and db.add, or db.commit() with db.rollback() when it fails.
\* locked: the other call keeps the write lock longer than the connection
\* waits (5 s by default), the call raises "database is locked".
app_sqlite_step(db, session, locked) ==
    LET view == [committed |-> db, pending |-> session.pending]
    IN IF locked
       THEN [db |-> rollback(view),
             session |-> [session EXCEPT !.pc = "done", !.pending = <<>>,
                                         !.failed = TRUE]]
       ELSE IF session.pc = "loop"
       THEN LET row == session.rows[session.n + 1]
                seen == IF query_first(view, row) THEN view ELSE add(view, row)
            IN [db |-> db,
                session |-> [session EXCEPT
                    !.pending = seen.pending,
                    !.n = session.n + 1,
                    !.pc = IF session.n + 1 = Len(session.rows)
                           THEN "commit" ELSE "loop"]]
       ELSE LET done == commit(view)
            IN [db |-> IF done.ok THEN done.db ELSE rollback(view),
                session |-> [session EXCEPT !.pc = "done", !.pending = <<>>,
                                            !.failed = ~done.ok]]

\* save_to_database, lines 19-27 and 40, on PostgreSQL: the upsert statement,
\* then db.commit()
app_postgresql_step(db, session) ==
    LET view == [committed |-> db, pending |-> <<>>]
    IN IF session.pc = "loop"
       THEN IF pg_upsert(view, session.rows).ok
            THEN [db |-> db,
                  session |-> [session EXCEPT !.pc = "commit",
                                              !.pending = session.rows,
                                              !.n = Len(session.rows)]]
            ELSE [db |-> rollback(view),
                  session |-> [session EXCEPT !.pc = "done", !.failed = TRUE]]
       ELSE [db |-> db \cup Range(session.pending),
             session |-> [session EXCEPT !.pc = "done", !.pending = <<>>]]

\* one storage call of save_word_pairs, lines 94-106: INSERT OR IGNORE of the
\* next window with its UPDATE, or conn.commit().  locked as for
\* app_sqlite_step: the error leaves the with block, is caught and logged, and
\* the call returns with nothing saved.
bot_step(db, session, locked) ==
    IF locked
    THEN [db |-> conn_exit(db, db \cup Range(session.pending), TRUE),
          session |-> [session EXCEPT !.pc = "done", !.pending = <<>>,
                                      !.failed = TRUE]]
    ELSE IF session.pc = "loop"
    THEN [db |-> db,
          session |-> [session EXCEPT
              !.pending = Append(session.pending, session.rows[session.n + 1]),
              !.n = session.n + 1,
              !.pc = IF session.n + 1 = Len(session.rows)
                     THEN "commit" ELSE "loop"]]
    ELSE [db |-> conn_exit(db, db \cup Range(session.pending), FALSE),
          session |-> [session EXCEPT !.pc = "done", !.pending = <<>>]]

\* the lock the step needs is free: not held by the other call
can_step(session, other) ==
    IF session.kind = "app-postgresql"
    THEN session.pc = "loop" => ~holds_row_lock(other, session.rows)
    ELSE IF session.kind = "bot" \/ session.pc = "commit"
    THEN ~holds_write_lock(other)
    ELSE TRUE

----------------------------------------------------------------------------
(* Feeding a document, feed_command of src/app/telegram_markov_bot.py *)

\* most lines (or messages) of a fed document, and most words of one of them
MaxLines == 2
MaxLineLen == 2
\* batch_size, line 223: a batch is saved when it holds this many windows
batch_size == 1000

\* the names config.py binds
ConfigNames ==
    {"LOG_LEVEL", "TIMEZONE", "MARKOV_ORDER", "RANDOM_REPLY_CHANCE",
     "WORD_FROM_USER_CHANCE", "DATABASE_URL"}

\* config.<name> is bound; reading another name raises AttributeError
config_defines(name) == name \in ConfigNames

\* the document the command replies to: none, a plain-text file or a file
\* named *.json
DocumentKinds == {"none", "text", "json"}

\* the token lists of the lines of a text file, or of the messages of an
\* export (empty for an empty line, for a message that is no text message)
FeedLines ==
    UNION {[1..n -> {ws \in TokenSeqs : Len(ws) <= MaxLineLen}] :
              n \in 0..MaxLines}

\* the name of the size limit the handler reads for the document
size_limit_name(is_json) ==
    IF is_json THEN "MAX_JSON_FILE_SIZE_MB" ELSE "MAX_FILE_SIZE_KB"

\* the loops of lines 236-247 and 273-282 from line i on, and the save of the
\* last batch (249-250, 284-285): the table they leave.  calls counts the
\* save_to_database calls made; the fault-th of them fails at its commit.
RECURSIVE feed_lines(_, _, _, _, _, _, _, _)
feed_lines(db, chat_id, lines, i, word_pairs_batch, calls, dialect, fault) ==
    LET save(batch) ==
            save_to_database(db, chat_id, batch, dialect,
                             IF fault = calls + 1 THEN Len(batch) + 1 ELSE 0).db
    IN IF i > Len(lines)
       THEN IF word_pairs_batch # <<>> THEN save(word_pairs_batch) ELSE db
       ELSE IF Len(lines[i]) >= 1
       THEN LET extended == word_pairs_batch \o word_pairs_of(lines[i])
            IN IF Len(extended) >= batch_size
               THEN feed_lines(save(extended), chat_id, lines, i + 1, <<>>,
                               calls + 1, dialect, fault)
               ELSE feed_lines(db, chat_id, lines, i + 1, extended,
                               calls, dialect, fault)
       ELSE feed_lines(db, chat_id, lines, i + 1, word_pairs_batch,
                       calls, dialect, fault)

\* feed_command, lines 192-297: the table it leaves and whether an exception
\* leaves the handler.  The size limits are read from config before the try
\* block.
feed(db, chat_id, admin, document, too_big, lines, dialect, fault) ==
    IF ~admin \/ document = "none"
    THEN [db |-> db, raised |-> FALSE]
    ELSE IF ~config_defines(size_limit_name(document = "json"))
    THEN [db |-> db, raised |-> TRUE]
    ELSE IF too_big
    THEN [db |-> db, raised |-> FALSE]
    ELSE [db |-> feed_lines(db, chat_id, lines, 1, <<>>, 0, dialect, fault),
          raised |-> FALSE]

----------------------------------------------------------------------------
(* Actions *)

Init ==
    /\ store = {}
    /\ ingested = EmptyBag
    /\ order \in {1, 2}
    /\ is_fallback_call = FALSE
    /\ last = NoLast
    /\ g = Idle
    /\ settings = NoSettings
    /\ sessions = NoSessions

\* handle_message, lines 60-76: the message is tokenised and its windows saved
handle_message(chat_id, words) ==
    /\ AtRest
    /\ TokensIn(ingested) + Len(words) <= MaxTokens
    /\ \E dialect \in {"postgresql", "sqlite"}, fault \in 0..(Len(words) + 1) :
          LET out == IF Len(words) >= 1
                     THEN save_to_database(store, chat_id, word_pairs_of(words),
                                           dialect, fault)
                     ELSE [db |-> store, raised |-> FALSE]
          IN /\ Len(words) = 0 => fault = 0
             /\ store' = out.db
             /\ ingested' = IF Len(words) >= 1 /\ fault = 0
                            THEN ingested (+) OneSequence(chat_id, words)
                            ELSE ingested
             /\ last' = [NoLast EXCEPT !.op = "handle_message", !.chat_id = chat_id,
                                       !.words = words, !.fault = fault,
                                       !.saved = Len(words) >= 1,
                                       !.raised = out.raised, !.before = store]
    /\ UNCHANGED <<order, is_fallback_call, g, settings, sessions>>

\* handle_message, lines 78-102: the handler answers, or not.  addressed is
\* is_mention or is_reply; respond is should_respond.  A failed read in
\* get_starting_word_from_message (fault0) or in generate_message (fault)
\* leaves the handler as an exception, and nothing is replied.
handle_message_reply ==
    /\ last.op = "handle_message"
    /\ \E respond \in BOOLEAN, addressed \in BOOLEAN, fault0 \in BOOLEAN,
          fault \in BOOLEAN :
          IF ~respond
          THEN g' = Idle
          ELSE \E failing \in SUBSET Range(last.words) :
               \E start \in
                      get_starting_word_from_message(store, last.words, last.chat_id,
                                                     ~addressed, fault0, failing) :
                  LET call == Call("app", "handle_message", last.chat_id,
                                   DefaultMaxLength, start.word, FALSE, FALSE)
                  IN IF start.raised
                     THEN g' = Done([call EXCEPT !.read_failed = TRUE], Raise)
                     ELSE g' \in generate_message_enter(store, order, call, fault)
    /\ last' = NoLast
    /\ UNCHANGED <<store, ingested, order, is_fallback_call, settings, sessions>>

\* handle_text_message, lines 397-413: windows are saved for two words or more
handle_text_message(chat_id, processed_words) ==
    /\ AtRest
    /\ TokensIn(ingested) + Len(processed_words) <= MaxTokens
    /\ \E fault \in 0..(Len(processed_words) + 1) :
          LET saves == Len(processed_words) >= 2
              out == IF saves
                     THEN save_word_pairs(store, chat_id,
                                          word_pairs_of(processed_words), fault)
                     ELSE [db |-> store, raised |-> FALSE]
          IN /\ ~saves => fault = 0
             /\ store' = out.db
             /\ ingested' = IF saves /\ fault = 0
                            THEN ingested (+) OneSequence(chat_id, processed_words)
                            ELSE ingested
             /\ last' = [NoLast EXCEPT !.op = "handle_text_message",
                                       !.chat_id = chat_id,
                                       !.words = processed_words, !.fault = fault,
                                       !.saved = saves,
                                       !.raised = out.raised, !.before = store]
    /\ UNCHANGED <<order, is_fallback_call, g, settings, sessions>>

\* handle_text_message, lines 416-454: random_chance is the response reason
\* "random chance", the only one that forces a word of the user
handle_text_message_reply ==
    /\ last.op = "handle_text_message"
    /\ \E should_respond \in BOOLEAN, random_chance \in BOOLEAN,
          fault \in BOOLEAN, fault2 \in BOOLEAN :
          IF ~should_respond
          THEN g' = Idle /\ UNCHANGED is_fallback_call
          ELSE \E failing \in SUBSET Range(last.words) :
               \E start_word \in
                      determine_starting_word(store, last.words, last.chat_id,
                                              random_chance, failing) :
                  /\ g' \in generate_enter(store, order, is_fallback_call,
                               Call("bot", "handle_text_message", last.chat_id,
                                    MAX_GENERATED_MESSAGE_LENGTH, start_word,
                                    FALSE, FALSE),
                               fault, fault2)
                  /\ is_fallback_call' = fallback_flag(g')
    /\ last' = NoLast
    /\ UNCHANGED <<store, ingested, order, settings, sessions>>

\* a call of word_exists_in_db
word_exists_in_db_call(chat_id, word) ==
    /\ AtRest
    /\ \E fault \in BOOLEAN :
          last' = [NoLast EXCEPT !.op = "word_exists_in_db", !.chat_id = chat_id,
                                 !.word = word, !.fault = IF fault THEN 1 ELSE 0,
                                 !.ret = word_exists_in_db(store, chat_id, word, fault),
                                 !.before = store]
    /\ UNCHANGED <<store, ingested, order, is_fallback_call, g, settings, sessions>>

\* a call of DatabaseManager.word_exists
word_exists_call(chat_id, word) ==
    /\ AtRest
    /\ \E fault \in BOOLEAN :
          last' = [NoLast EXCEPT !.op = "word_exists", !.chat_id = chat_id,
                                 !.word = word, !.fault = IF fault THEN 1 ELSE 0,
                                 !.ret = word_exists(store, chat_id, word, fault),
                                 !.before = store]
    /\ UNCHANGED <<store, ingested, order, is_fallback_call, g, settings, sessions>>

\* a call of get_random_word_from_db
get_random_word_from_db_call(chat_id) ==
    /\ AtRest
    /\ \E fault \in BOOLEAN :
          \E word \in get_random_word_from_db(store, chat_id, fault) :
             last' = [NoLast EXCEPT !.op = "get_random_word_from_db",
                                    !.chat_id = chat_id,
                                    !.fault = IF fault THEN 1 ELSE 0,
                                    !.picked = word, !.before = store]
    /\ UNCHANGED <<store, ingested, order, is_fallback_call, g, settings, sessions>>

\* a call of DatabaseManager.get_random_db_word
get_random_db_word_call(chat_id) ==
    /\ AtRest
    /\ \E fault \in BOOLEAN :
          \E word \in get_random_db_word(store, chat_id, fault) :
             last' = [NoLast EXCEPT !.op = "get_random_db_word",
                                    !.chat_id = chat_id,
                                    !.fault = IF fault THEN 1 ELSE 0,
                                    !.picked = word, !.before = store]
    /\ UNCHANGED <<store, ingested, order, is_fallback_call, g, settings, sessions>>

\* a call of generate_message up to its loop
generate_message_call(chat_id, max_length, starting_word) ==
    /\ AtRest
    /\ \E fault \in BOOLEAN :
          g' \in generate_message_enter(store, order,
                    Call("app", "call", chat_id, max_length, starting_word,
                         FALSE, FALSE),
                    fault)
    /\ UNCHANGED <<store, ingested, order, is_fallback_call, last, settings, sessions>>

\* the loop of generate_message
generate_message_step ==
    /\ g.pc = "walk" /\ g.program = "app"
    /\ g' \in generate_message_loop(store, order, g)
    /\ UNCHANGED <<store, ingested, order, is_fallback_call, last, settings, sessions>>

\* a call of MarkovChainGenerator.generate up to its loop
generate_call(chat_id, max_length, use_all_chats, starting_word) ==
    /\ AtRest
    /\ \E fault \in BOOLEAN, fault2 \in BOOLEAN :
          g' \in generate_enter(store, order, is_fallback_call,
                    Call("bot", "call", chat_id, max_length, starting_word,
                         use_all_chats, FALSE),
                    fault, fault2)
    /\ is_fallback_call' = fallback_flag(g')
    /\ UNCHANGED <<store, ingested, order, last, settings, sessions>>

\* the loop of MarkovChainGenerator.generate
generate_step ==
    /\ g.pc = "walk" /\ g.program = "bot"
    /\ \E fault2 \in BOOLEAN :
          g' \in generate_loop(store, order, is_fallback_call, g, fault2)
    /\ is_fallback_call' = fallback_flag(g')
    /\ UNCHANGED <<store, ingested, order, last, settings, sessions>>

\* the call has returned and its value is used: the process waits for the
\* next update
Return ==
    /\ \/ g.pc = "done"
       \/ last.op \in {"word_exists_in_db", "word_exists", "set_command",
                      "settings_command", "feed_command",
                      "get_random_word_from_db",
                      "get_random_db_word"}
    /\ g' = Idle
    /\ last' = NoLast
    /\ UNCHANGED <<store, ingested, order, is_fallback_call, settings, sessions>>

\* a save call begins: the first on the empty table, the second in the other
\* process while the first is in progress
save_begin(s, chat_id, words, kind) ==
    /\ last = NoLast /\ g = Idle
    /\ sessions[s].pc = "idle"
    /\ words # <<>> /\ Len(words) <= MaxBatch
    /\ \A o \in Sessions \ {s} :
          /\ same_database(kind, sessions[o])
          /\ IF ingested = EmptyBag
             THEN sessions[o].pc = "idle"
             ELSE sessions[o].pc \in {"loop", "commit"}
    /\ sessions' = [sessions EXCEPT ![s] =
           [NoSession EXCEPT !.pc = "loop", !.kind = kind, !.chat_id = chat_id,
                             !.rows = RowsOf(chat_id, word_pairs_of(words))]]
    /\ ingested' = ingested (+) OneSequence(chat_id, words)
    /\ UNCHANGED <<store, order, is_fallback_call, last, g, settings>>

\* the next storage call of a save call in progress.  A call that needs a
\* lock the other holds waits for it: on PostgreSQL until the other commits,
\* on SQLite until then or until its connection gives up.
save_step(s) ==
    /\ sessions[s].pc \in {"loop", "commit"}
    /\ LET locked == \E o \in Sessions \ {s} :
                         ~can_step(sessions[s], sessions[o])
           out == IF sessions[s].kind = "app-sqlite"
                  THEN app_sqlite_step(store, sessions[s], locked)
                  ELSE IF sessions[s].kind = "app-postgresql"
                  THEN app_postgresql_step(store, sessions[s])
                  ELSE bot_step(store, sessions[s], locked)
       IN /\ locked => sessions[s].kind # "app-postgresql"
          /\ store' = out.db
          /\ sessions' = [sessions EXCEPT ![s] = out.session]
    /\ UNCHANGED <<ingested, order, is_fallback_call, last, g, settings>>

\* the calls in progress have returned
save_return ==
    /\ \E s \in Sessions : sessions[s].pc = "done"
    /\ \A s \in Sessions : sessions[s].pc \in {"idle", "done"}
    /\ sessions' = NoSessions
    /\ UNCHANGED <<store, ingested, order, is_fallback_call, last, g, settings>>

NextConcurrent ==
    \/ \E s \in Sessions, c \in Chats, ws \in TokenSeqs, k \in SaveKinds :
          save_begin(s, c, ws, k)
    \/ \E s \in Sessions : save_step(s)
    \/ save_return

\* two processes save into one database
ConcurrentSpec == Init /\ [][NextConcurrent]_vars

Next ==
    \/ \E c \in Chats, ws \in TokenSeqs : handle_message(c, ws)
    \/ handle_message_reply
    \/ \E c \in Chats, ws \in TokenSeqs : handle_text_message(c, ws)
    \/ handle_text_message_reply
    \/ \E c \in Chats, w \in QueryWords : word_exists_in_db_call(c, w)
    \/ \E c \in Chats, w \in QueryWords : word_exists_call(c, w)
    \/ \E c \in Chats : get_random_word_from_db_call(c)
    \/ \E c \in Chats : get_random_db_word_call(c)
    \/ \E c \in Chats, n \in 0..MaxLength, w \in SeedWords :
          generate_message_call(c, n, w)
    \/ generate_message_step
    \/ \E c \in Chats, n \in 0..MaxLength, a \in BOOLEAN, w \in SeedWords :
          generate_call(c, n, a, w)
    \/ generate_step
    \/ Return

Spec == Init /\ [][Next]_vars

\* the loops run on: a generation call is straight-line code that no other
\* handler interrupts
FairSpec ==
    Spec /\ WF_vars(generate_message_step) /\ WF_vars(generate_step)

\* is_admin(update, context): the chat is private, or the sender is among the
\* administrators of the chat
is_admin(private, from_admin) == private \/ from_admin

\* set_command, lines 136-184.  fault 1: the query or the commit of
\* update_group_settings raises, nothing is written.  fault 2: db.refresh
\* (crud.py line 24) or reply_text raises, after the commit.  Either way the
\* exception leaves the handler.
set_command(chat_id, private, from_admin, args) ==
    /\ AtRest
    /\ \E fault \in 0..2 :
          /\ settings' = IF is_admin(private, from_admin) /\ Len(args) = 2
                         THEN set_setting(settings, chat_id, args, fault = 1)
                         ELSE settings
          /\ last' = [NoLast EXCEPT !.op = "set_command", !.chat_id = chat_id,
                                    !.args = args,
                                    !.admin = is_admin(private, from_admin),
                                    !.fault = fault]
    /\ UNCHANGED <<store, ingested, order, is_fallback_call, g, sessions>>

\* settings_command, lines 115-133: a chat without a row gets an empty one.
\* fault 1: the query of get_group_settings or the commit of
\* update_group_settings (crud.py line 23) raises, nothing is written.
\* fault 2: db.refresh (crud.py line 24) or reply_text raises, after the
\* commit.  Either way the exception leaves the handler.
settings_command(chat_id) ==
    /\ AtRest
    /\ \E fault \in 0..2 :
          /\ settings' = IF get_group_settings(settings, chat_id).exists
                            \/ fault = 1
                         THEN settings
                         ELSE update_group_settings_empty(settings, chat_id)
          /\ last' = [NoLast EXCEPT !.op = "settings_command",
                                    !.chat_id = chat_id,
                                    !.fault = fault,
                                    !.raised = fault # 0]
    /\ UNCHANGED <<store, ingested, order, is_fallback_call, g, sessions>>

\* request_message, lines 105-112: generate_message(db, chat_id)
request_message(chat_id) ==
    /\ AtRest
    /\ \E fault \in BOOLEAN :
          g' \in generate_message_enter(store, order,
                    Call("app", "request_message", chat_id, DefaultMaxLength,
                         NoSeed, FALSE, FALSE),
                    fault)
    /\ UNCHANGED <<store, ingested, order, is_fallback_call, last, settings, sessions>>

NextSettings ==
    \/ \E c \in Chats, private \in BOOLEAN, from_admin \in BOOLEAN,
          args \in SetArgs : set_command(c, private, from_admin, args)
    \/ \E c \in Chats : settings_command(c)
    \/ Return

\* the commands that show and change the settings of a chat
SettingsSpec == Init /\ [][NextSettings]_vars

\* the /set commands that name the order
OrderArgs == {<<"MARKOV_ORDER", v>> : v \in {"1", "2", "3"}}

NextOrder ==
    \/ \E c \in Chats, args \in OrderArgs : set_command(c, TRUE, TRUE, args)
    \/ \E c \in Chats, ws \in TokenSeqs : handle_message(c, ws)
    \/ handle_message_reply
    \/ \E c \in Chats : request_message(c)
    \/ generate_message_step
    \/ Return

\* a chat sets its order, sends messages and asks for one
OrderSpec == Init /\ [][NextOrder]_vars

\* largest max_length of the calls that walk past the soft limit of a long
\* message
MaxLongLength == 5

\* a call of generate_message with a max_length up to MaxLongLength, no seed
generate_message_long_call(chat_id, max_length) ==
    /\ AtRest
    /\ g' \in generate_message_enter(store, order,
                 Call("app", "call", chat_id, max_length, NoSeed, FALSE, FALSE),
                 FALSE)
    /\ UNCHANGED <<store, ingested, order, is_fallback_call, last, settings, sessions>>

NextLong ==
    \/ \E c \in Chats, ws \in TokenSeqs : handle_message(c, ws)
    \/ handle_message_reply
    \/ \E c \in Chats, n \in 1..MaxLongLength : generate_message_long_call(c, n)
    \/ generate_message_step
    \/ Return

\* messages are saved and generate_message walks them with longer limits
LongSpec == Init /\ [][NextLong]_vars

\* feed_command
feed_command(chat_id, private, from_admin, document, too_big, lines) ==
    /\ AtRest
    /\ \E dialect \in {"postgresql", "sqlite"}, fault \in 0..2 :
          LET out == feed(store, chat_id, is_admin(private, from_admin),
                          document, too_big, lines, dialect, fault)
          IN /\ store' = out.db
             /\ last' = [NoLast EXCEPT !.op = "feed_command", !.chat_id = chat_id,
                                       !.admin = is_admin(private, from_admin),
                                       !.document = document,
                                       !.too_big = too_big, !.lines = lines,
                                       !.fault = fault, !.raised = out.raised,
                                       !.before = store]
    /\ UNCHANGED <<ingested, order, is_fallback_call, g, settings, sessions>>

NextFeed ==
    \/ \E c \in Chats, private \in BOOLEAN, from_admin \in BOOLEAN,
          document \in DocumentKinds, too_big \in BOOLEAN, lines \in FeedLines :
          feed_command(c, private, from_admin, document, too_big, lines)
    \/ Return

\* documents are fed
FeedSpec == Init /\ [][NextFeed]_vars

----------------------------------------------------------------------------
(* Properties *)

RowsOfChat(db, chat_id) == {r \in db : r[1] = chat_id}

\* the rows a generation call reads
ScopeRows(call) ==
    IF call.use_all_chats THEN store ELSE RowsOfChat(store, call.chat_id)

\* how often ctx is followed by succ in the wrapped sequence s
CountWindows(s, ctx, succ, ord) ==
    Cardinality({i \in 1..(Len(s) - ord) :
                    SubSeq(s, i, i + ord - 1) = ctx /\ s[i + ord] = succ})

\* how often ctx is followed by succ in the sequences ingested for chat_id
Occurrences(chat_id, ctx, succ, ord) ==
    SumOver([e \in DOMAIN ingested |->
                IF e[1] = chat_id
                THEN ingested[e] * CountWindows(word_sequence(e[2]), ctx, succ, ord)
                ELSE 0],
            DOMAIN ingested)

\* the content words ingested for chat_id
IngestedWords(chat_id) ==
    UNION {Range(e[2]) : e \in {x \in DOMAIN ingested : x[1] = chat_id}}

\* C1: the weight build_markov_model gives every edge of a chat equals the
\* number of times the window occurred in the sequences ingested for the chat
\* (so ingesting a sequence twice doubles its weights).
C1_WeightIsOccurrenceCount ==
    \A c \in Chats :
        LET transitions == build_markov_model(store, c, order).transitions
        IN \A ctx \in DOMAIN transitions :
              \A w \in DOMAIN transitions[ctx] :
                  transitions[ctx][w] = Occurrences(c, ctx, w, order)

\* C2: handle_message on a chat without rows stores exactly the windows of
\* [START, w1..wk, END] when k >= 1, and leaves the store as it was when the
\* message has no token.
C2_StoresExactlyTheWindows ==
    (/\ last.op = "handle_message"
     /\ last.fault = 0
     /\ RowsOfChat(last.before, last.chat_id) = {})
    => /\ RowsOfChat(store, last.chat_id) =
              Range(RowsOf(last.chat_id, word_pairs_of(last.words)))
       /\ Len(last.words) = 0 => store = last.before

\* C3: a generation call whose read succeeds and finds no row for its
\* conversation returns the fixed insufficient-data message of its program;
\* it does not raise, whatever max_length and starting word.
C3_NoEdgesInsufficientData ==
    (g.pc = "done" /\ ~g.read_failed /\ ScopeRows(g) = {})
    => g.result = Fixed(IF g.program = "app"
                        THEN INSUFFICIENT_APP ELSE INSUFFICIENT_BOT)

C3_Witness ==
    /\ g.pc = "done" /\ ~g.read_failed /\ ScopeRows(g) = {}
    /\ store # {} /\ g.starting_word # NoSeed /\ g.max_length > 0
    /\ g.result.kind = "fixed"

\* C4: the text a generation call returns holds no marker as a word.
C4_NoMarkerInOutput ==
    (g.pc = "done" /\ g.result.kind = "text")
    => \A i \in DOMAIN g.result.words : g.result.words[i] \notin Markers

C4_Witness ==
    /\ g.pc = "done" /\ g.result.kind = "text"
    /\ g.starting_word \in Markers
    /\ \E i \in DOMAIN g.message : g.message[i] \in Markers
    /\ g.result.words # <<>>

\* C5 as claimed: generate_message never holds more than 1.5 * max_length
\* emitted tokens.
C5_NeverAboveOneAndAHalf ==
    (g.program = "app" /\ g.pc \in {"walk", "done"})
    => 2 * Len(g.message) <= 3 * g.max_length

\* C5 as amended: generate_message never holds more than 1.5 * max_length
\* emitted tokens rounded up to a whole token, but the first token is emitted
\* whatever max_length is.
C5_NeverAboveCapRoundedUp ==
    (g.program = "app" /\ g.pc \in {"walk", "done"})
    => \/ 2 * Len(g.message) <= 3 * g.max_length + 1
       \/ Len(g.message) <= 1

C5_Witness ==
    /\ g.program = "app" /\ g.pc = "done"
    /\ g.max_length = 3
    /\ 2 * Len(g.message) = 3 * g.max_length + 1
    /\ g.current_state \in
           DOMAIN build_markov_model(store, g.chat_id, order).transitions

\* C6: the walk of a generation call ends: from every state in the loop the
\* call reaches its return.
C6_WalkTerminates == (g.pc = "walk") ~> (g.pc = "done")

\* a walk that ran in a cycle of the table until the emission cap stopped it
C6_Witness ==
    /\ g.pc = "done" /\ g.program = "app" /\ g.max_length > 0
    /\ ~loop_continues(g.current_state, g.message, g.max_length)
    /\ LET transitions == build_markov_model(store, g.chat_id, order).transitions
       IN /\ g.current_state \in DOMAIN transitions
          /\ \A ctx \in DOMAIN transitions :
                END_TOKEN \notin DOMAIN transitions[ctx]

\* the table the call in progress walks
TransitionsOf(call) ==
    IF call.program = "app"
    THEN build_markov_model(store, call.chat_id, order).transitions
    ELSE build_model(store, call.chat_id, call.use_all_chats, order, FALSE).transitions

\* a step of the loop that appends a word to the message
Appends == g.pc = "walk" /\ g'.pc = "walk" /\ g'.retry = g.retry
               /\ Len(g'.message) > Len(g.message)

\* C7 as claimed: no step of the loop taken with more than max_length tokens
\* emitted appends a token, whether or not the end marker is a successor of
\* the current state.
C7_NoAppendAboveMaxLength ==
    [][(g.pc = "walk" /\ Len(g.message) > g.max_length) => ~Appends]_vars

\* C7 as amended: no step of the loop taken with more than max_length tokens
\* emitted, in a state that has the end marker among its stored successors,
\* appends a token: the end marker is chosen and the walk ends.
C7_EndForcedWhenItIsASuccessor ==
    [][(/\ g.pc = "walk" /\ Len(g.message) > g.max_length
        /\ g.current_state \in DOMAIN TransitionsOf(g)
        /\ END_TOKEN \in DOMAIN TransitionsOf(g)[g.current_state])
       => (~Appends /\ g'.pc = "done")]_vars

C7_Witness ==
    /\ g.pc = "walk" /\ g.program = "app"
    /\ Len(g.message) > g.max_length
    /\ loop_continues(g.current_state, g.message, g.max_length)
    /\ g.current_state \in DOMAIN TransitionsOf(g)
    /\ END_TOKEN \in DOMAIN TransitionsOf(g)[g.current_state]
    /\ Cardinality(DOMAIN TransitionsOf(g)[g.current_state]) > 1

\* C8: word_exists_in_db and word_exists answer true only for a word that was
\* ingested as a content token of that chat, never for a marker.
C8_TrueOnlyForContentWords ==
    (last.op \in {"word_exists_in_db", "word_exists"} /\ last.ret)
    => /\ last.word \notin Markers
       /\ last.word \in IngestedWords(last.chat_id)

\* C9: a save that a storage error hits returns without raising and leaves
\* the table as it was before the call.
C9_FailedSaveChangesNothing ==
    (/\ last.op \in {"handle_message", "handle_text_message"}
     /\ last.saved /\ last.fault # 0)
    => (store = last.before /\ ~last.raised)

\* the error hit after rows of the batch had been added to the session
C9_Witness ==
    /\ last.op = "handle_message" /\ last.saved /\ last.fault >= 3
    /\ \E i \in 1..(last.fault - 1) :
          RowsOf(last.chat_id, word_pairs_of(last.words))[i] \notin last.before
    /\ store = last.before

\* C10: a generation call whose read of the edges fails returns one of the
\* fixed messages; the error does not reach the caller.
C10_FailedReadGivesFallback ==
    (g.pc = "done" /\ g.read_failed) => g.result.kind = "fixed"

\* C11: when two save calls on one chat whose batches share a window have both
\* returned, however their storage calls interleaved, the table holds every
\* window of both batches.
C11_NoBatchLost ==
    (/\ \A s \in Sessions : sessions[s].pc = "done"
     /\ sessions[1].chat_id = sessions[2].chat_id
     /\ Range(sessions[1].rows) \cap Range(sessions[2].rows) # {})
    => \A s \in Sessions : Range(sessions[s].rows) \subseteq store

\* the model the call in progress was built from
ModelOf(call) ==
    IF call.program = "app"
    THEN build_markov_model(store, call.chat_id, order)
    ELSE build_model(store, call.chat_id, call.use_all_chats, order, FALSE)

\* the starting states of the call's model whose trailing word is the seed
MatchingStarts(call) ==
    {s \in ModelOf(call).starting_states : s[order] = call.starting_word}

\* C12: a call seeded with the trailing word of a starting state begins in one
\* of the matching starting states, and the seed is the first word of its
\* message and of the text it returns.
C12_SeedStartsTheOutput ==
    (/\ g.pc \in {"walk", "done"} /\ ~g.read_failed
     /\ g.starting_word # NoSeed
     /\ MatchingStarts(g) # {})
    => /\ g.message # <<>>
       /\ g.message[1] = g.starting_word
       /\ (g.pc = "walk" /\ Len(g.message) = 1)
              => g.current_state \in MatchingStarts(g)
       /\ g.pc = "done"
              => /\ g.result.kind = "text"
                 /\ g.result.words # <<>>
                 /\ g.result.words[1] = g.starting_word

\* the stored contexts of the call's model whose leading word is the seed
LedBySeed(call) ==
    {k \in DOMAIN ModelOf(call).transitions : k[1] = call.starting_word}

\* C13: in order 2, a call seeded with a content word that no starting state
\* ends with but some stored context begins with starts in one of those
\* contexts, and its message and text begin with the two words of the context.
C13_SeedFallsBackToAContext ==
    (/\ g.pc \in {"walk", "done"} /\ ~g.read_failed
     /\ order = 2
     /\ g.starting_word \in Words
     /\ MatchingStarts(g) = {}
     /\ LedBySeed(g) # {})
    => /\ Len(g.message) >= 2
       /\ <<g.message[1], g.message[2]>> \in LedBySeed(g)
       /\ g.pc = "done"
              => /\ g.result.kind = "text"
                 /\ Len(g.result.words) >= 2
                 /\ <<g.result.words[1], g.result.words[2]>> \in LedBySeed(g)

\* one step of the loop of a call in progress on the table db, its reads
\* succeeding
StepsOn(db, call) ==
    IF call.program = "app"
    THEN generate_message_loop(db, order, call)
    ELSE generate_loop(db, order, fallback_flag(call), call, FALSE)

\* the values the calls in progress can return on the table db
RECURSIVE ResultsOn(_, _)
ResultsOn(db, calls) ==
    IF \A c \in calls : c.pc = "done"
    THEN {c.result : c \in calls}
    ELSE ResultsOn(db, UNION {IF c.pc = "done" THEN {c} ELSE StepsOn(db, c) :
                                 c \in calls})

\* the values a call can return on the table db, its reads succeeding
OutputsOn(db, request) ==
    ResultsOn(db, IF request.program = "app"
                  THEN generate_message_enter(db, order, request, FALSE)
                  ELSE generate_enter(db, order, FALSE, request, FALSE, FALSE))

\* the values a call can return on the store as it is
Outputs(request) == OutputsOn(store, request)

\* the seed of the call is the trailing word of no starting state and the
\* leading word of no stored context
SeedMatchesNothing(call) ==
    /\ call.starting_word # NoSeed
    /\ MatchingStarts(call) = {}
    /\ LedBySeed(call) = {}

\* C14: a call whose seed matches no starting state and no stored context can
\* return exactly the values the same call without a seed can return, none of
\* them an exception; and the value a call in progress did return is one of
\* them.
C14_UnknownSeedIsNoSeed ==
    /\ AtRest =>
          \A request \in
                {Call(p, "call", c, n, w, a, FALSE) :
                    p \in {"app", "bot"}, c \in Chats, n \in 1..MaxLength,
                    w \in SeedWords, a \in BOOLEAN} :
             (SeedMatchesNothing(request) /\ (request.program = "app" => ~request.use_all_chats))
                => /\ Outputs(request)
                         = Outputs([request EXCEPT !.starting_word = NoSeed])
                   /\ Raise \notin Outputs(request)
    /\ (g.pc = "done" /\ ~g.read_failed /\ SeedMatchesNothing(g))
          => g.result \in Outputs([g EXCEPT !.pc = "idle", !.retry = FALSE,
                                            !.starting_word = NoSeed,
                                            !.current_state = None,
                                            !.message = <<>>, !.remaining = 0,
                                            !.result = NoResult])

\* a seeded call on a chat with stored messages returned a text, the seed
\* matching neither a starting state nor a context
C14_Witness ==
    /\ g.pc = "done" /\ ~g.read_failed
    /\ g.starting_word \in Words
    /\ SeedMatchesNothing(g)
    /\ g.result.kind = "text"

\* the fixed messages MarkovChainGenerator.generate returns for a message it
\* could not start or that held no word
NoMessage == {Fixed(NO_START_BOT), Fixed(EMPTY_BOT)}

\* MarkovChainGenerator.generate retries once: a seeded call that did not
\* retry never returns a no-message text; the retry runs without a seed and
\* returns a text or a fixed message; the flag is false whenever the call has
\* returned
LegacyRetriesOnce ==
    /\ g.program = "bot" =>
          /\ (g.pc = "done" /\ ~g.retry /\ g.starting_word # NoSeed)
                => g.result \notin NoMessage
          /\ g.retry => g.starting_word = NoSeed
          /\ (g.pc = "done" /\ g.retry)
                => \/ g.result.kind = "text" /\ g.result.words # <<>>
                   \/ g.result \in NoMessage \cup {Fixed(INSUFFICIENT_BOT)}
    /\ g.pc \in {"idle", "done"} => ~is_fallback_call

\* the call has returned a text without a word: its message held markers only
EmptyOutput == g.pc = "done" /\ g.result = Text(<<>>)

\* C15: a seeded call of either generator whose message is empty once the
\* markers are filtered out does not return it: generation is retried once
\* without the seed, the retry does not retry again, what is still empty
\* becomes the fixed message, and the flag is false when the call has returned.
C15_EmptyOutputIsRetried ==
    /\ (g.starting_word # NoSeed \/ g.retry) => ~EmptyOutput
    /\ LegacyRetriesOnce

\* C16: the walk of generate_message for a chat uses contexts of the width the
\* chat has set with /set MARKOV_ORDER, or of the default width when the chat
\* has set none.
C16_WalkUsesTheOrderOfTheChat ==
    (g.pc = "walk" /\ g.program = "app")
        => Len(g.current_state) = get_markov_order(settings, g.chat_id, order)

\* the column of group_settings a setting name stands for
ColumnOf(setting_name) ==
    IF setting_name = "MARKOV_ORDER" THEN "markov_order"
    ELSE IF setting_name = "RANDOM_REPLY_CHANCE" THEN "random_reply_chance"
    ELSE "word_from_user_chance"

Columns == {"markov_order", "random_reply_chance", "word_from_user_chance"}

\* the value the arguments of a /set command give its column, if they are
\* valid: a name that is, in upper case, one of the three settings, with an
\* order of 1 or 2 or a chance between 0 and 1 (in tenths)
ValidSet(args) ==
    /\ Len(args) = 2
    /\ upper(args[1]) \in
          {"MARKOV_ORDER", "RANDOM_REPLY_CHANCE", "WORD_FROM_USER_CHANCE"}
    /\ IF upper(args[1]) = "MARKOV_ORDER"
       THEN int(args[2]).ok /\ int(args[2]).value \in {1, 2}
       ELSE /\ float(args[2]).ok /\ ~float(args[2]).nan
            /\ 0 <= float(args[2]).value /\ float(args[2]).value <= 10

NewValue(args) ==
    IF upper(args[1]) = "MARKOV_ORDER"
    THEN Value(int(args[2]).value) ELSE Value(float(args[2]).value)

\* the stored settings are in range
SettingsInRange ==
    \A c \in Chats :
       /\ settings[c].markov_order.is_set
             => settings[c].markov_order.value \in {1, 2}
       /\ \A k \in {"random_reply_chance", "word_from_user_chance"} :
             settings[c][k].is_set
                => 0 <= settings[c][k].value /\ settings[c][k].value <= 10

\* a step of set_command that changes a column changes one column of the
\* chat of the command, from an administrator or in a private chat, with valid
\* arguments, to the value given; no other handler changes a column
SetChangesOneColumn ==
    (\E c \in Chats, k \in Columns : settings'[c][k] # settings[c][k])
    => /\ last'.op = "set_command"
       /\ last'.admin
       /\ ValidSet(last'.args)
       /\ settings'[last'.chat_id][ColumnOf(upper(last'.args[1]))]
             = NewValue(last'.args)
       /\ \A c \in Chats, k \in Columns :
             (c # last'.chat_id \/ k # ColumnOf(upper(last'.args[1])))
                => settings'[c][k] = settings[c][k]

\* C19: /set changes a stored setting only for an administrator or in a
\* private chat, with exactly two arguments, a setting name (compared in
\* upper case) of MARKOV_ORDER, RANDOM_REPLY_CHANCE or WORD_FROM_USER_CHANCE
\* and a valid value, and then only that column of that chat; so every stored
\* order is unset, 1 or 2 and every stored chance unset or within [0, 1].
C19_SetChangesOnlyValidSettings ==
    []SettingsInRange /\ [][SetChangesOneColumn]_vars

\* a /set command has set the reply chance of a chat whose order was set
\* before and is as it was
C19_Witness ==
    /\ last.op = "set_command" /\ last.admin
    /\ last.args = <<"RANDOM_REPLY_CHANCE", "0.5">>
    /\ settings[last.chat_id].random_reply_chance = Value(5)
    /\ settings[last.chat_id].markov_order = Value(1)
    /\ \E c \in Chats \ {last.chat_id} :
          settings[c].word_from_user_chance = Value(10)

\* the content words of the stored contexts of a chat
ContentWords(chat_id) ==
    UNION {{r[2], r[3]} : r \in RowsOfChat(store, chat_id)} \ Markers

\* C20: a random-word call whose read succeeds returns no word exactly when
\* the chat has no stored content word; else it returns a content word of a
\* stored context of the chat, and every such word is a possible result.
C20_RandomWordIsAnyContentWord ==
    (last.op \in {"get_random_word_from_db", "get_random_db_word"}
        /\ last.fault = 0)
    => /\ last.picked = NoSeed <=> ContentWords(last.chat_id) = {}
       /\ last.picked # NoSeed => last.picked \in ContentWords(last.chat_id)
       /\ \A w \in ContentWords(last.chat_id) :
             w \in IF last.op = "get_random_word_from_db"
                   THEN get_random_word_from_db(store, last.chat_id, FALSE)
                   ELSE get_random_db_word(store, last.chat_id, FALSE)

\* the calls of the generators for one chat, outside the all-chats mode
ChatRequests(chat_id) ==
    {Call(p, "call", chat_id, n, w, FALSE, FALSE) :
        p \in {"app", "bot"}, n \in 1..MaxLength, w \in SeedWords}

\* what the read operations give for a chat on the table db: the values the
\* generators can return, the words found, the random words
ResultsFor(db, chat_id) ==
    [outputs |-> [request \in ChatRequests(chat_id) |-> OutputsOn(db, request)],
     word_exists_in_db |->
         [w \in QueryWords |-> word_exists_in_db(db, chat_id, w, FALSE)],
     word_exists |-> [w \in QueryWords |-> word_exists(db, chat_id, w, FALSE)],
     get_random_word_from_db |-> get_random_word_from_db(db, chat_id, FALSE),
     get_random_db_word |-> get_random_db_word(db, chat_id, FALSE)]

\* the reads for a chat depend on the rows of the chat alone
OwnRowsOnly ==
    AtRest => \A c \in Chats :
                 ResultsFor(store, c) = ResultsFor(RowsOfChat(store, c), c)

\* a step that changes the table changes the rows of the chat of the message
\* only, and no result of a read for another chat
OtherChatsUntouched ==
    store' # store
    => \A c \in Chats \ {last'.chat_id} :
          /\ RowsOfChat(store', c) = RowsOfChat(store, c)
          /\ ResultsFor(store', c) = ResultsFor(store, c)

\* C17: outside the all-chats mode the chats are isolated: saving the windows
\* of a message of one chat leaves the rows of every other chat as they are,
\* and the generators, the word lookups and the random words for a chat give
\* what they give on the rows of that chat alone, so that a message of one
\* chat changes no possible result for another.
C17_ChatsAreIsolated ==
    []OwnRowsOnly /\ [][OtherChatsUntouched]_vars

\* a message of one chat has been saved while the other chat has rows
C17_Witness ==
    /\ last.op \in {"handle_message", "handle_text_message"}
    /\ store # last.before
    /\ \E c \in Chats \ {last.chat_id} : RowsOfChat(store, c) # {}

\* the weight of the edge ctx -> w in a model, 0 for an edge it has not
WeightIn(model, ctx, w) ==
    IF ctx \in DOMAIN model.transitions
    THEN IF w \in DOMAIN model.transitions[ctx]
         THEN model.transitions[ctx][w] ELSE 0
    ELSE 0

\* the model of all chats gives every edge the sum of the weights the models
\* of the chats give it, and has no other edge
AllChatsWeightsSummed ==
    LET all == build_model(store, 0, TRUE, order, FALSE)
    IN /\ \A ctx \in DOMAIN all.transitions :
          \A w \in DOMAIN all.transitions[ctx] :
             all.transitions[ctx][w]
                = SumOver([c \in Chats |->
                              WeightIn(build_model(store, c, FALSE, order, FALSE),
                                       ctx, w)],
                          Chats)
       /\ \A c \in Chats :
             LET own == build_model(store, c, FALSE, order, FALSE)
             IN \A ctx \in DOMAIN own.transitions :
                   \A w \in DOMAIN own.transitions[ctx] :
                      WeightIn(all, ctx, w) >= own.transitions[ctx][w]

\* a call in the all-chats mode for a chat without rows, another chat having
\* rows, returns generated text
AllChatsGivesText ==
    (/\ g.pc = "done" /\ g.program = "bot" /\ g.use_all_chats
     /\ ~g.read_failed
     /\ RowsOfChat(store, g.chat_id) = {}
     /\ store # {})
    => g.result.kind = "text" /\ g.result.words # <<>>

\* C18: MarkovChainGenerator.generate with use_all_chats builds its model from
\* the rows of all chats, the weight of an edge being the sum of its weights
\* in the chats, and returns generated text for a chat without rows whenever
\* another chat has rows.
C18_AllChatsModelGivesText ==
    AllChatsWeightsSummed /\ AllChatsGivesText

\* a call in the all-chats mode for a chat without rows never returns the
\* insufficient-data message when another chat has rows
AllChatsNeverInsufficient ==
    (/\ g.pc = "done" /\ g.program = "bot" /\ g.use_all_chats
     /\ ~g.read_failed
     /\ RowsOfChat(store, g.chat_id) = {}
     /\ store # {})
    => g.result # Fixed(INSUFFICIENT_BOT)

\* the rows of an ingested message are in the table
Stored(e) == Range(RowsOf(e[1], word_pairs_of(e[2]))) \subseteq store

\* C21: in order 1, for every ingested message whose rows are stored, the
\* models both programs build for the chat have an edge for every pair of
\* neighbours of the wrapped sequence: START -> w1, wi -> w(i+1), wk -> END.
C21_OrderOneEdgesOfTheSequence ==
    order = 1 =>
       \A e \in DOMAIN ingested :
          Stored(e) =>
             LET s == word_sequence(e[2])
             IN \A i \in 1..(Len(s) - 1) :
                   /\ WeightIn(build_markov_model(store, e[1], 1),
                               <<s[i]>>, s[i + 1]) > 0
                   /\ WeightIn(build_model(store, e[1], FALSE, 1, FALSE),
                               <<s[i]>>, s[i + 1]) > 0

\* the call in progress is about to draw a word: the loop condition holds and
\* the state has successors
Draws ==
    /\ g.pc = "walk" /\ g.program = "app"
    /\ loop_continues(g.current_state, g.message, g.max_length)
    /\ g.current_state \in DOMAIN TransitionsOf(g)

\* the draw is one the end marker is boosted in: the message is longer than
\* half of max_length, not longer than max_length, and the end marker is a
\* successor of the state
BoostedDraw ==
    /\ Draws
    /\ 2 * Len(g.message) > g.max_length /\ Len(g.message) <= g.max_length
    /\ END_TOKEN \in DOMAIN TransitionsOf(g)[g.current_state]

\* every successor but the end marker keeps its stored weight, the end marker
\* keeps it up to half of max_length, and the words drawn up to max_length
\* are those of positive weight
OnlyTheEndMarkerIsBoosted ==
    Draws =>
       LET stored == TransitionsOf(g)[g.current_state]
           n == Len(g.message)
           used == sampling_weights(stored, n, g.max_length)
       IN /\ DOMAIN used = DOMAIN stored
          /\ \A w \in DOMAIN stored :
                (w # END_TOKEN \/ 2 * n <= g.max_length) => used[w] = stored[w]
          /\ n <= g.max_length
                => next_words(TransitionsOf(g), g.current_state, n, g.max_length)
                      = random_choices(used)

\* in a boosted draw the weight of the end marker is exactly
\* w * (1 + 4 * (n - 0.5 L) / (0.5 L)) = w * (8 n - 3 L) / L, and above w
C22_EndWeightIsScaledExactly ==
    /\ OnlyTheEndMarkerIsBoosted
    /\ BoostedDraw =>
          LET stored == TransitionsOf(g)[g.current_state]
              n == Len(g.message)
              L == g.max_length
              used == sampling_weights(stored, n, L)
          IN /\ used[END_TOKEN] * L = stored[END_TOKEN] * (8 * n - 3 * L)
             /\ used[END_TOKEN] > stored[END_TOKEN]

\* C22: in a draw with 0.5 L < n <= L where the end marker is a successor of
\* weight w, the weight used for the end marker is w * (8 n - 3 L) / L rounded
\* down to an integer, which is at least w; every other successor keeps its
\* weight, and at or below 0.5 L no weight is changed.
C22_EndWeightIsScaledAndRoundedDown ==
    /\ OnlyTheEndMarkerIsBoosted
    /\ BoostedDraw =>
          LET stored == TransitionsOf(g)[g.current_state]
              n == Len(g.message)
              L == g.max_length
              used == sampling_weights(stored, n, L)
          IN /\ used[END_TOKEN] * L <= stored[END_TOKEN] * (8 * n - 3 * L)
             /\ stored[END_TOKEN] * (8 * n - 3 * L) < (used[END_TOKEN] + 1) * L
             /\ used[END_TOKEN] >= stored[END_TOKEN]

\* a boosted draw in which rounding down leaves the end marker its weight,
\* and one in which it is raised
C22_Witness ==
    /\ BoostedDraw
    /\ g.max_length = 5 /\ Len(g.message) = 3
    /\ sampling_weights(TransitionsOf(g)[g.current_state], 3, 5)[END_TOKEN]
          = TransitionsOf(g)[g.current_state][END_TOKEN]
    /\ sampling_weights(TransitionsOf(g)[g.current_state], 4, 5)[END_TOKEN] = 3

\* C23: after /feed from an administrator (or in a private chat) in reply to
\* a text or JSON document within the size limit, with no storage error, the
\* table holds every window of every line that has a token.
C23_FeedStoresEveryLine ==
    (/\ last.op = "feed_command" /\ last.admin
     /\ last.document \in {"text", "json"} /\ ~last.too_big
     /\ last.fault = 0)
    => \A i \in DOMAIN last.lines :
          Range(RowsOf(last.chat_id, word_pairs_of(last.lines[i]))) \subseteq store

\* the loops of feed_command alone, on an empty table without a storage
\* fault, store every window of every line of every document
FeedLoopStoresEveryLine ==
    \A lines \in FeedLines, dialect \in {"postgresql", "sqlite"} :
       \A i \in DOMAIN lines :
          Range(RowsOf(1, word_pairs_of(lines[i])))
             \subseteq feed_lines({}, 1, lines, 1, <<>>, 0, dialect, 0)

\* the call began in a context led by its seed that is no starting state
\* (the relaxed search of MarkovChainGenerator in order 2)
BeganInAContext(call) ==
    /\ call.program = "bot" /\ order = 2 /\ ~call.retry
    /\ call.starting_word # NoSeed
    /\ MatchingStarts(call) = {}
    /\ \E k \in LedBySeed(call) : k[1] # START_TOKEN

\* the words t are a path through the rows of the chat: in order 2 every
\* triple of neighbours is a row, from (START, t1, t2) on when the path
\* begins in a starting state; in order 1 every pair of neighbours is word1
\* and word2 of a row, as is (START, t1) for a path from a starting state
IsStoredPath(t, chat_id, from_start) ==
    LET rows == RowsOfChat(store, chat_id)
        s == IF from_start THEN <<START_TOKEN>> \o t ELSE t
    IN IF order = 2
       THEN /\ \A i \in 1..(Len(s) - 2) :
                  <<chat_id, s[i], s[i + 1], s[i + 2]>> \in rows
            /\ Len(s) >= 2 =>
                  \E r \in rows : r[2] = s[1] /\ r[3] = s[2]
       ELSE \A i \in 1..(Len(s) - 1) :
               \E r \in rows : r[2] = s[i] /\ r[3] = s[i + 1]

\* the call began in a starting state: not in a context, and not in the seed
\* itself as calls of order 1 do for a seed that is a context
BeganInAStartingState(call) ==
    /\ ~BeganInAContext(call)
    /\ order = 1 => (call.starting_word = NoSeed \/ LedBySeed(call) = {})

\* C24: outside the all-chats mode, the words of the message of a call, and
\* of the text it returns, are a path through the rows of the chat: every
\* word is a stored successor of the state before it, and a message begun in
\* a starting state begins with a word stored after the start marker.
C24_OutputIsAStoredPath ==
    (g.pc \in {"walk", "done"} /\ ~g.use_all_chats /\ g.message # <<>>)
    => /\ IsStoredPath(SelectNotMarker(g.message), g.chat_id,
                       BeganInAStartingState(g))
       /\ (g.pc = "done" /\ g.result.kind = "text")
             => g.result.words = SelectNotMarker(g.message)

\* a call of generate_message in order 2 has returned a text of three words
\* or more
C24_Witness ==
    /\ g.pc = "done" /\ g.program = "app" /\ order = 2
    /\ g.result.kind = "text" /\ Len(g.result.words) >= 3

\* both lookups find word in the rows of chat_id in db, read without an error
Observed(db, chat_id, word) ==
    /\ word_exists_in_db(db, chat_id, word, FALSE)
    /\ word_exists(db, chat_id, word, FALSE)

\* every word of every message whose windows are all in the table is found
WordsOfStoredMessagesObserved ==
    \A e \in DOMAIN ingested :
       Stored(e) => \A i \in 1..Len(e[2]) : Observed(store, e[1], e[2][i])

\* a step takes no window away and leaves every word found that was found
ObservedStaysObserved ==
    /\ store \subseteq store'
    /\ \A c \in Chats, w \in Words :
          Observed(store, c, w) => Observed(store', c, w)

\* C25: once the windows of a message are in the table, word_exists_in_db and
\* word_exists, read without a storage error, are true for every word of the
\* message in its chat, the last word and the word of a one-word message
\* included, and no later step of either program makes them false.
C25_IngestedWordsStayObserved ==
    []WordsOfStoredMessagesObserved /\ [][ObservedStaysObserved]_vars

\* a one-word message was stored and a later message has been stored in the
\* same chat since
C25_Witness ==
    /\ last.op = "handle_message" /\ last.saved /\ store # last.before
    /\ \E e \in DOMAIN ingested :
          /\ Len(e[2]) = 1 /\ e[1] = last.chat_id /\ e[2] # last.words
          /\ Range(RowsOf(e[1], word_pairs_of(e[2]))) \subseteq last.before
          /\ Observed(store, e[1], e[2][1])

\* the generation calls the handler can make for the message it has just
\* taken in: the seed is a word of the message that is found, or none
HandlerRequests ==
    IF last.op = "handle_message"
    THEN {Call("app", "handle_message", last.chat_id, DefaultMaxLength, w,
               FALSE, FALSE) :
             w \in {o.word :
                      o \in UNION {get_starting_word_from_message(
                                       store, last.words, last.chat_id, f,
                                       FALSE, {}) : f \in BOOLEAN}}}
    ELSE {Call("bot", "handle_text_message", last.chat_id,
               MAX_GENERATED_MESSAGE_LENGTH, w, FALSE, FALSE) :
             w \in UNION {determine_starting_word(store, last.words,
                                                   last.chat_id, f, {}) :
                             f \in BOOLEAN}}

InsufficientData == {Fixed(INSUFFICIENT_APP), Fixed(INSUFFICIENT_BOT)}

\* with the windows of the message in the table, no reply the handler can
\* generate, its reads succeeding, is the insufficient-data message
StoredMessageIsAnswered ==
    (/\ last.op \in {"handle_message", "handle_text_message"}
     /\ Len(last.words) >= 1
     /\ Stored(<<last.chat_id, last.words>>))
    => \A request \in HandlerRequests :
          Outputs(request) \cap InsufficientData = {}

\* C26: when a handler has taken in a message of one word or more and is
\* about to decide on its reply, the windows of the message have been handed
\* to the store, and if they are in the table no reply it can generate is the
\* insufficient-data message.
C26_LearnsBeforeItAnswers ==
    /\ (last.op \in {"handle_message", "handle_text_message"}
        /\ Len(last.words) >= 1) => last.saved
    /\ StoredMessageIsAnswered

\* handle_message alone learns before it answers
AppLearnsBeforeItAnswers ==
    last.op = "handle_message" => C26_LearnsBeforeItAnswers

\* the reply of handle_text_message to a message is the insufficient-data
\* message
LegacyReplyIsInsufficient ==
    /\ g.pc = "done" /\ g.caller = "handle_text_message" /\ ~g.read_failed
    /\ g.result = Fixed(INSUFFICIENT_BOT)

====
